---- MODULE Spec2Model ----
(***************************************************************************)
(* A model of the iptv-tool channel directory cache (router package:       *)
(* channelsPtr, updateChannelsWithRetry, updateChannels, GetM3UData,       *)
(* GetTXTData) and of the Shandong EPG aggregators of package hwctc.       *)
(***************************************************************************)
EXTENDS Integers, Sequences, FiniteSets, TLC

(***************************************************************************)
(* Bounds of the model.                                                    *)
(***************************************************************************)
\* longest channel list the acquisition collaborator returns
MaxChannels == 2
\* largest maxRetries argument tried
MaxRetriesBound == 1
\* number of refresh cycles (calls of updateChannelsWithRetry) in one run
MaxCycles == 2

ChannelIDs == {"c1", "c2"}

VARIABLES
    channelsPtr,   \* atomic.Pointer[[]iptv.Channel]: [nil, chans]
    rpc,           \* position of the refresh goroutine
    maxRetries,    \* argument of updateChannelsWithRetry
    i,             \* loop counter of updateChannelsWithRetry
    err,           \* local err of updateChannelsWithRetry
    ret,           \* value updateChannelsWithRetry returned
    channels,      \* local channels of updateChannels / list under construction
    acqErr,        \* local err of updateChannels: what GetAllChannelList returned
    lastRet,       \* value the last updateChannels call returned
    cancelAt,      \* where the refresh was when the caller's context was cancelled, or "none"
    cycles,        \* calls of updateChannelsWithRetry so far
    callNo,        \* history: number of updateChannels calls so far
    snapBefore,    \* history: channelsPtr when the current updateChannels call began
    outcomes,      \* history: results of the attempts of the current cycle
    rd,            \* what the last reader (GetM3UData / GetTXTData) loaded
    variant,       \* which aggregator runs: "index", "sdiptv", "date"; "none" outside
    loc,           \* time.Local: its offset east of UTC, in minutes
    now,           \* the wall clock: what time.Now() returns
    ticks,         \* advances of the wall clock so far
    ePc,           \* position of the aggregator
    eIdx,          \* loop variable: index, i or offset
    epgBackDay,    \* local epgBackDay of the sdiptv aggregator
    startNow,      \* time.Now() when the aggregation began (local now of the date aggregator)
    targetDate,    \* local targetDate of the index and date aggregators
    requested,     \* history: the offsets of the day requests made, in order
    okKeys,        \* history: the offsets of the day requests that returned no error
    datePrograms,  \* the DateProgram list under construction, then returned
    eRet,          \* the error the aggregator returned
    rawData,       \* a day's listing handed to a parser
    parsed,        \* what the parser returned for rawData
    rPc,           \* position of the renderer or of its caller
    impl,          \* which of the two getChannelURLStr of channel.go is built: "v1", "v2"
    channelURLs,   \* argument channelURLs of getChannelURLStr
    udpxyURL,      \* argument udpxyURL of getChannelURLStr
    multicastFirst,\* argument multicastFirst of getChannelURLStr
    selectedURL,   \* local channelURL / selectedURL of getChannelURLStr
    urlRet,        \* what getChannelURLStr returned
    catchUpMode,   \* local / flag catchUpMode of a caller of ToM3UFormat
    catchupSource, \* local / flag catchupSource of a caller of ToM3UFormat
    format,        \* flag format of the channel command
    resp           \* what a caller of the renderers answered

cacheVars == <<channelsPtr, rpc, maxRetries, i, err, ret, channels, acqErr, lastRet,
               cancelAt, cycles, callNo, snapBefore, outcomes, rd>>

epgVars == <<variant, loc, now, ticks, ePc, eIdx, epgBackDay, startNow, targetDate,
             requested, okKeys, datePrograms, eRet, rawData, parsed>>

renderVars == <<rPc, impl, channelURLs, udpxyURL, multicastFirst, selectedURL, urlRet,
                catchUpMode, catchupSource, format, resp>>

vars == <<cacheVars, epgVars, renderVars>>

\* ctx.Done() is closed
ctxDone == cancelAt # "none"

(***************************************************************************)
(* channelsPtr: the zero value of atomic.Pointer holds nil.                *)
(***************************************************************************)
NilPtr == [nil |-> TRUE, chans |-> <<>>]

PtrTo(list) == [nil |-> FALSE, chans |-> list]

\* GetAllChannelList(ctx): the error values the acquisition collaborator can
\* return; a cancelled context makes it return the cancellation error.
AcquireErrors(done) == IF done THEN {"ctx"} ELSE {"nil", "acq"}

\* a slip: the pointer is stored before the result is validated
updateChannelsStoreFirst(ptr, list, e) ==
    IF e # "nil" THEN [ptr |-> PtrTo(list), ret |-> e]
    ELSE IF Len(list) = 0 THEN [ptr |-> PtrTo(list), ret |-> "empty"]
    ELSE [ptr |-> PtrTo(list), ret |-> "nil"]

\* updateChannels, from the return of GetAllChannelList on: the pointer it
\* leaves and the error it returns.
updateChannels(ptr, list, e) ==
    IF e # "nil" THEN [ptr |-> ptr, ret |-> e]
    ELSE IF Len(list) = 0 THEN [ptr |-> ptr, ret |-> "empty"]
    ELSE [ptr |-> PtrTo(list), ret |-> "nil"]

CacheInit ==
    /\ channelsPtr = NilPtr
    /\ rpc = "idle"
    /\ maxRetries = 0
    /\ i = 0
    /\ err = "nil"
    /\ ret = "nil"
    /\ channels = <<>>
    /\ acqErr = "nil"
    /\ lastRet = "nil"
    /\ cancelAt = "none"
    /\ cycles = 0
    /\ callNo = 0
    /\ snapBefore = NilPtr
    /\ outcomes = <<>>
    /\ rd = [seen |-> NilPtr, call |-> 0, status |-> "none"]

\* updateChannelsWithRetry is called: var err error; i := 0
CallWithRetry(m) ==
    /\ rpc = "idle"
    /\ cycles < MaxCycles
    /\ rpc' = "loop"
    /\ maxRetries' = m
    /\ i' = 0
    /\ err' = "nil"
    /\ outcomes' = <<>>
    /\ cycles' = cycles + 1
    /\ UNCHANGED <<channelsPtr, ret, channels, acqErr, lastRet, cancelAt, callNo, snapBefore, rd>>
    /\ UNCHANGED <<epgVars, renderVars>>

\* the loop test i < maxRetries: either updateChannels is called, or the
\* function returns err
LoopTest ==
    /\ rpc = "loop"
    /\ IF i < maxRetries
       THEN /\ rpc' = "acquire"
            /\ channels' = <<>>
            /\ acqErr' = "nil"
            /\ callNo' = callNo + 1
            /\ snapBefore' = channelsPtr
            /\ UNCHANGED ret
       ELSE /\ rpc' = "done"
            /\ ret' = err
            /\ UNCHANGED <<channels, acqErr, callNo, snapBefore>>
    /\ UNCHANGED <<channelsPtr, maxRetries, i, err, lastRet, cancelAt, cycles, outcomes, rd>>
    /\ UNCHANGED <<epgVars, renderVars>>

\* a slip: the list under construction is the one the shared pointer names
AcquireAppendInPlace(c) ==
    /\ rpc = "acquire"
    /\ Len(channels) < MaxChannels
    /\ channels' = Append(channels, c)
    /\ channelsPtr' = PtrTo(channels')
    /\ UNCHANGED <<acqErr, rpc, maxRetries, i, err, ret, lastRet, cancelAt,
                   cycles, callNo, snapBefore, outcomes, rd>>
    /\ UNCHANGED <<epgVars, renderVars>>

\* the collaborator builds the channel list in memory of its own
AcquireAppend(c) ==
    /\ rpc = "acquire"
    /\ Len(channels) < MaxChannels
    /\ channels' = Append(channels, c)
    /\ UNCHANGED <<acqErr, channelsPtr, rpc, maxRetries, i, err, ret, lastRet, cancelAt,
                   cycles, callNo, snapBefore, outcomes, rd>>
    /\ UNCHANGED <<epgVars, renderVars>>

\* GetAllChannelList returns (channels, e); updateChannels validates and stores
AcquireReturn(e) ==
    /\ rpc = "acquire"
    /\ e \in AcquireErrors(ctxDone)
    /\ LET list == IF e = "nil" THEN channels ELSE <<>>
           r == updateChannels(channelsPtr, list, e)
       IN /\ channels' = list
          /\ acqErr' = e
          /\ channelsPtr' = r.ptr
          /\ lastRet' = r.ret
          /\ rpc' = IF r.ret = "nil" THEN "stored" ELSE "failed"
    /\ UNCHANGED <<maxRetries, i, err, ret, cancelAt, cycles, callNo, snapBefore, outcomes, rd>>
    /\ UNCHANGED <<epgVars, renderVars>>

\* updateChannels returns to the loop: on an error the backoff sleep starts,
\* otherwise the loop breaks and the function returns err
UpdateChannelsReturn ==
    /\ rpc \in {"stored", "failed"}
    /\ err' = lastRet
    /\ outcomes' = Append(outcomes, lastRet)
    /\ IF lastRet # "nil"
       THEN rpc' = "sleep" /\ UNCHANGED ret
       ELSE rpc' = "done" /\ ret' = lastRet
    /\ UNCHANGED <<channelsPtr, maxRetries, i, channels, acqErr, lastRet, cancelAt, cycles,
                   callNo, snapBefore, rd>>
    /\ UNCHANGED <<epgVars, renderVars>>

\* time.Sleep(waitSeconds * time.Second) ends; i++
SleepDone ==
    /\ rpc = "sleep"
    /\ rpc' = "loop"
    /\ i' = i + 1
    /\ UNCHANGED <<channelsPtr, maxRetries, err, ret, channels, acqErr, lastRet, cancelAt,
                   cycles, callNo, snapBefore, outcomes, rd>>
    /\ UNCHANGED <<epgVars, renderVars>>

\* the caller cancels the context while updateChannelsWithRetry is running
Cancel ==
    /\ rpc \notin {"idle", "done"}
    /\ ~ctxDone
    /\ cancelAt' = rpc
    /\ UNCHANGED <<channelsPtr, rpc, maxRetries, i, err, ret, channels, acqErr, lastRet,
                   cycles, callNo, snapBefore, outcomes, rd>>
    /\ UNCHANGED <<epgVars, renderVars>>

\* the scheduler starts the next cycle
NextCycle ==
    /\ rpc = "done"
    /\ ~ctxDone
    /\ rpc' = "idle"
    /\ UNCHANGED <<channelsPtr, maxRetries, i, err, ret, channels, acqErr, lastRet, cancelAt,
                   cycles, callNo, snapBefore, outcomes, rd>>
    /\ UNCHANGED <<epgVars, renderVars>>

\* a handler runs channels := *channelsPtr.Load() and tests len(channels) == 0
GetData ==
    /\ rd' = [seen |-> channelsPtr,
              call |-> IF rpc \in {"acquire", "stored", "failed"} THEN callNo ELSE 0,
              status |-> IF channelsPtr.nil THEN "panic"
                         ELSE IF Len(channelsPtr.chans) = 0 THEN "404"
                         ELSE "render"]
    /\ UNCHANGED <<channelsPtr, rpc, maxRetries, i, err, ret, channels, acqErr, lastRet,
                   cancelAt, cycles, callNo, snapBefore, outcomes>>
    /\ UNCHANGED <<epgVars, renderVars>>

CacheNext ==
    \/ \E m \in 0..MaxRetriesBound : CallWithRetry(m)
    \/ LoopTest
    \/ \E c \in ChannelIDs : AcquireAppend(c)
    \/ \E e \in {"nil", "acq", "ctx"} : AcquireReturn(e)
    \/ UpdateChannelsReturn
    \/ SleepDone
    \/ Cancel
    \/ NextCycle
    \/ GetData

(***************************************************************************)
(* Time.  An instant is a number of minutes of absolute time; day 0 starts *)
(* at instant 0 in UTC.  The days of the model lie in one month, so that a *)
(* calendar date is a day of that month.  tz is the offset of time.Local   *)
(* east of UTC, in minutes.                                                *)
(***************************************************************************)
MinutesPerDay == 1440

\* t.Year(), t.Month(), t.Day() in the zone: the calendar day
LocalDay(t, tz) == (t + tz) \div MinutesPerDay

\* t.Hour() * 60 + t.Minute() in the zone
LocalClock(t, tz) == (t + tz) % MinutesPerDay

\* time.Date(y, m, d, hour, min, 0, 0, loc)
Date(day, hour, min, tz) == day * MinutesPerDay + hour * 60 + min - tz

\* t.AddDate(0, 0, days)
AddDate(t, days, tz) ==
    Date(LocalDay(t, tz) + days, LocalClock(t, tz) \div 60, LocalClock(t, tz) % 60, tz)

\* t.Truncate(24 * time.Hour): rounds down the absolute time since the zero
\* time, which is a midnight of UTC
Truncate24h(t) == t - (t % MinutesPerDay)

\* a.Before(b)
Before(a, b) == a < b

\* t.Format("20060102150405"): day of the month, hour, minute, second
FormatStamp(t, tz) == <<LocalDay(t, tz), LocalClock(t, tz) \div 60, LocalClock(t, tz) % 60, 0>>

\* t.Format("15:04")
FormatClock(t, tz) == <<LocalClock(t, tz) \div 60, LocalClock(t, tz) % 60>>

(***************************************************************************)
(* Strings are sequences of one-character strings.                         *)
(***************************************************************************)
Digits == {"0", "1", "2", "3", "4", "5", "6", "7", "8", "9"}

DigitVal(c) ==
    CASE c = "0" -> 0 [] c = "1" -> 1 [] c = "2" -> 2 [] c = "3" -> 3 [] c = "4" -> 4
      [] c = "5" -> 5 [] c = "6" -> 6 [] c = "7" -> 7 [] c = "8" -> 8 [] c = "9" -> 9

DigitChar(n) ==
    CASE n = 0 -> "0" [] n = 1 -> "1" [] n = 2 -> "2" [] n = 3 -> "3" [] n = 4 -> "4"
      [] n = 5 -> "5" [] n = 6 -> "6" [] n = 7 -> "7" [] n = 8 -> "8" [] n = 9 -> "9"

IsDigit(s, k) == k <= Len(s) /\ s[k] \in Digits

Drop(s, n) == SubSeq(s, n + 1, Len(s))

NumErr == [ok |-> FALSE, val |-> 0, rest |-> <<>>]

\* v := ...; the value is named once and used in what follows
Bind(v, F(_)) == F(v)

\* package time, getnum(s, fixed): one or two leading digits, two when fixed
getnum(s, fixed) ==
    IF ~IsDigit(s, 1) THEN NumErr
    ELSE IF ~IsDigit(s, 2)
         THEN IF fixed THEN NumErr
              ELSE [ok |-> TRUE, val |-> DigitVal(s[1]), rest |-> Drop(s, 1)]
         ELSE [ok |-> TRUE, val |-> DigitVal(s[1]) * 10 + DigitVal(s[2]), rest |-> Drop(s, 2)]

RECURSIVE DigitsVal(_, _)
\* the number the first n characters of s denote, all of them digits
DigitsVal(s, n) == IF n = 0 THEN 0 ELSE DigitsVal(s, n - 1) * 10 + DigitVal(s[n])

\* n leading digits exactly (the year of a layout: 2006)
getnumN(s, n) ==
    IF \A k \in 1..n : IsDigit(s, k)
    THEN [ok |-> TRUE, val |-> DigitsVal(s, n), rest |-> Drop(s, n)]
    ELSE NumErr

\* the literal text of a layout between two of its fields; "" is no text
SkipLit(s, c) ==
    IF c = "" THEN [ok |-> TRUE, rest |-> s]
    ELSE IF Len(s) >= 1 /\ s[1] = c THEN [ok |-> TRUE, rest |-> Drop(s, 1)]
    ELSE [ok |-> FALSE, rest |-> <<>>]

ClockErr == [ok |-> FALSE, hour |-> 0, min |-> 0, rest |-> <<>>]

\* the fields "15:04" of a layout: hour of one or two digits below 24, ":",
\* minute of two digits below 60; rest is what follows them
ParseHourMinute(s) ==
    Bind(getnum(s, FALSE), LAMBDA h :
      IF ~h.ok \/ h.val >= 24 THEN ClockErr
      ELSE Bind(SkipLit(h.rest, ":"), LAMBDA c :
        IF ~c.ok THEN ClockErr
        ELSE Bind(getnum(c.rest, TRUE), LAMBDA m :
          IF ~m.ok \/ m.val >= 60 THEN ClockErr
          ELSE [ok |-> TRUE, hour |-> h.val, min |-> m.val, rest |-> m.rest])))

\* time.ParseInLocation("15:04", s, loc): text after the minute is an error
ParseClock(s) ==
    Bind(ParseHourMinute(s), LAMBDA r : IF r.ok /\ Len(r.rest) = 0 THEN r ELSE ClockErr)

\* s[:5] when len(s) > 5
Truncate5(s) == IF Len(s) > 5 THEN SubSeq(s, 1, 5) ELSE s

\* t.Format("20060102"); the month of the model is January 2025
DateStr(t, tz) ==
    <<"2", "0", "2", "5", "0", "1",
      DigitChar(LocalDay(t, tz) \div 10), DigitChar(LocalDay(t, tz) % 10)>>

DateErr == [ok |-> FALSE, year |-> 0, month |-> 0, day |-> 0, rest |-> <<>>]

\* the fields of a date in a layout: a year of four digits, sep, a month of
\* two digits, sep, a day of two digits; sep is "" or one character
ParseYearMonthDay(s, sep) ==
    Bind(getnumN(s, 4), LAMBDA y :
      IF ~y.ok THEN DateErr
      ELSE Bind(SkipLit(y.rest, sep), LAMBDA c1 :
        IF ~c1.ok THEN DateErr
        ELSE Bind(getnum(c1.rest, TRUE), LAMBDA m :
          IF ~m.ok \/ m.val < 1 \/ m.val > 12 THEN DateErr
          ELSE Bind(SkipLit(m.rest, sep), LAMBDA c2 :
            IF ~c2.ok THEN DateErr
            ELSE Bind(getnum(c2.rest, TRUE), LAMBDA d :
              IF ~d.ok \/ d.val < 1 \/ d.val > 31 THEN DateErr
              ELSE [ok |-> TRUE, year |-> y.val, month |-> m.val,
                    day |-> d.val, rest |-> d.rest])))))

StampErr == [ok |-> FALSE, t |-> 0, sec |-> 0]

\* time.ParseInLocation("20060102", s, time.Local): midnight of the day
ParseDate8(s, tz) ==
    Bind(ParseYearMonthDay(s, ""), LAMBDA d :
      IF d.ok /\ Len(d.rest) = 0 THEN [ok |-> TRUE, t |-> Date(d.day, 0, 0, tz), sec |-> 0]
      ELSE StampErr)

\* time.ParseInLocation("2006-01-02 15:04:05", s, time.Local)
ParseDateTime(s, tz) ==
    Bind(ParseYearMonthDay(s, "-"), LAMBDA d :
      IF ~d.ok THEN StampErr
      ELSE Bind(SkipLit(d.rest, " "), LAMBDA sp :
        IF ~sp.ok THEN StampErr
        ELSE Bind(ParseHourMinute(sp.rest), LAMBDA hm :
          IF ~hm.ok THEN StampErr
          ELSE Bind(SkipLit(hm.rest, ":"), LAMBDA c :
            IF ~c.ok THEN StampErr
            ELSE Bind(getnum(c.rest, TRUE), LAMBDA sc :
              IF ~sc.ok \/ sc.val >= 60 \/ Len(sc.rest) # 0 THEN StampErr
              ELSE [ok |-> TRUE, t |-> Date(d.day, hm.hour, hm.min, tz),
                    sec |-> sc.val])))))

\* strconv.Itoa(n), 0 <= n <= 99
Itoa(n) == IF n < 10 THEN <<DigitChar(n)>> ELSE <<DigitChar(n \div 10), DigitChar(n % 10)>>

\* index, _ := strconv.Atoi(s): 0 when s is not a number
Atoi(s) ==
    IF Len(s) \in 1..2 /\ \A k \in 1..Len(s) : IsDigit(s, k)
    THEN DigitsVal(s, Len(s))
    ELSE 0

(***************************************************************************)
(* The parsers of a day's listing.  A listing is a sequence of entries     *)
(* [start, end]; an entry's progName is its place in the listing.          *)
(***************************************************************************)
Program(name, start, end, tz) ==
    [ProgramName |-> name,
     BeginTimeFormat |-> FormatStamp(start, tz),
     EndTimeFormat |-> FormatStamp(end, tz),
     StartTime |-> FormatClock(start, tz),
     EndTime |-> FormatClock(end, tz)]

TimesErr == [ok |-> FALSE, start |-> 0, end |-> 0]

\* a slip: the end of a program that crosses midnight stays on the base date
parseShandongTimesNoCross(baseDate, startStr, endStr, tz) ==
    Bind(ParseClock(Truncate5(startStr)), LAMBDA st :
      IF ~st.ok THEN TimesErr
      ELSE Bind(ParseClock(Truncate5(endStr)), LAMBDA et :
        IF ~et.ok THEN TimesErr
        ELSE [ok |-> TRUE,
              start |-> Date(LocalDay(baseDate, tz), st.hour, st.min, tz),
              end |-> Date(LocalDay(baseDate, tz), et.hour, et.min, tz)]))

\* start and end being on the same date: the end moves to the next day
\* when it is before the start
CrossMidnight(start, end, tz) == IF Before(end, start) THEN AddDate(end, 1, tz) ELSE end

\* epg_shandong.go, parseShandongTimes; tz is baseDate.Location()
parseShandongTimes(baseDate, startStr, endStr, tz) ==
    Bind(ParseClock(Truncate5(startStr)), LAMBDA st :
      IF ~st.ok THEN TimesErr
      ELSE Bind(ParseClock(Truncate5(endStr)), LAMBDA et :
        IF ~et.ok THEN TimesErr
        ELSE Bind(Date(LocalDay(baseDate, tz), st.hour, st.min, tz), LAMBDA start :
               [ok |-> TRUE,
                start |-> start,
                end |-> CrossMidnight(start,
                           Date(LocalDay(baseDate, tz), et.hour, et.min, tz), tz)])))

RECURSIVE ShandongLoop(_, _, _, _)
\* the loop of parseShandongPrograms over the first k entries
ShandongLoop(data, k, baseDate, tz) ==
    IF k = 0 THEN <<>>
    ELSE Bind(parseShandongTimes(baseDate, data[k].start, data[k].end, tz), LAMBDA r :
           IF ~r.ok THEN ShandongLoop(data, k - 1, baseDate, tz)
           ELSE Append(ShandongLoop(data, k - 1, baseDate, tz),
                       Program(k, r.start, r.end, tz)))

\* epg_shandong.go, parseShandongPrograms(data, index), time.Now() being tnow
parseShandongPrograms(data, index, tnow, tz) ==
    IF Len(data) = 0 THEN [err |-> "empty", programs |-> <<>>]
    ELSE [err |-> "nil",
          programs |-> ShandongLoop(data, Len(data), AddDate(tnow, index, tz), tz)]

RECURSIVE SdIptvLoop(_, _, _, _)
\* the loop of parseSdIptvProgramList over the first k entries: the start is
\* parsed as it came, the end cut to five characters
SdIptvLoop(data, k, baseDate, tz) ==
    IF k = 0 THEN <<>>
    ELSE Bind(ParseClock(data[k].start), LAMBDA st :
      IF ~st.ok THEN SdIptvLoop(data, k - 1, baseDate, tz)
      ELSE Bind(ParseClock(Truncate5(data[k].end)), LAMBDA et :
        IF ~et.ok THEN SdIptvLoop(data, k - 1, baseDate, tz)
        ELSE Bind(Date(LocalDay(baseDate, tz), st.hour, st.min, tz), LAMBDA startDateTime :
               Append(SdIptvLoop(data, k - 1, baseDate, tz),
                      Program(k, startDateTime,
                              CrossMidnight(startDateTime,
                                  Date(LocalDay(baseDate, tz), et.hour, et.min, tz), tz),
                              tz)))))

\* part_002, parseSdIptvProgramList(rawData, indexStr), time.Now() being tnow
parseSdIptvProgramList(data, indexStr, tnow, tz) ==
    IF Len(data) = 0 THEN [err |-> "empty", programs |-> <<>>]
    ELSE [err |-> "nil",
          programs |-> SdIptvLoop(data, Len(data),
                          Date(LocalDay(AddDate(tnow, Atoi(indexStr), tz), tz), 0, 0, tz), tz)]

\* a Program of parseProgramData: its stamps keep the seconds parsed
ProgramWithSeconds(name, st, et, tz) ==
    Bind(Program(name, st.t, CrossMidnight(st.t, et.t, tz), tz), LAMBDA p :
      [p EXCEPT !.BeginTimeFormat[4] = st.sec, !.EndTimeFormat[4] = et.sec])

RECURSIVE ProgramDataLoop(_, _, _, _)
\* the loop of parseProgramData over the first k entries
ProgramDataLoop(data, k, dateStr, tz) ==
    IF k = 0 THEN <<>>
    ELSE Bind(ParseDateTime(SubSeq(dateStr, 1, 8) \o <<" ">> \o data[k].start, tz), LAMBDA st :
      IF ~st.ok THEN ProgramDataLoop(data, k - 1, dateStr, tz)
      ELSE Bind(ParseDateTime(SubSeq(dateStr, 1, 8) \o <<" ">> \o data[k].end, tz), LAMBDA et :
        IF ~et.ok THEN ProgramDataLoop(data, k - 1, dateStr, tz)
        ELSE Append(ProgramDataLoop(data, k - 1, dateStr, tz),
                    ProgramWithSeconds(k, st, et, tz))))

\* part_003, parseProgramData(rawData, dateStr)
parseProgramData(data, dateStr, tz) ==
    IF ~ParseDate8(dateStr, tz).ok THEN [err |-> "date", programs |-> <<>>]
    ELSE [err |-> "nil", programs |-> ProgramDataLoop(data, Len(data), dateStr, tz)]

(***************************************************************************)
(* The aggregators.  One run aggregates the listings of one channel.       *)
(***************************************************************************)
\* epg_shandong.go: the window of the index aggregator
minIndex == -7
maxIndex == 4
\* part_003: "7 days before to 1 day after"
daysBefore == 7
daysAfter == 1
\* part_002: the cap of epgBackDay
maxBackDay == 3

\* a run obtains the programs of at most this many days
MaxGoodDays == 2
\* the wall clock advances at most this many times during a run
MaxTicks == 1
\* longest day listing handed to a parser on its own
MaxEntries == 2
\* one advance of the wall clock, in minutes
TickMinutes == 1
\* the day of the month on which a run begins
StartDay == 15

\* time.Local and the clock at the beginning of a run
Scenarios == {[tz |-> 0, clock |-> 720], [tz |-> 480, clock |-> 180],
              [tz |-> 480, clock |-> 1439]}

\* channel.TimeShiftLength, in hours
TimeShiftHours == {0, 36, 240}

T0800 == <<"0", "8", ":", "0", "0">>
T2330 == <<"2", "3", ":", "3", "0">>
T0015 == <<"0", "0", ":", "1", "5">>
T2330s == <<"2", "3", ":", "3", "0", ":", "0", "0">>
Tbad == <<"a", "b">>

\* the raw times of the listings, each with the clock time it denotes
RawTable ==
    {[s |-> T0800, valid |-> TRUE, clock |-> 480],
     [s |-> T2330, valid |-> TRUE, clock |-> 1410],
     [s |-> T0015, valid |-> TRUE, clock |-> 15],
     [s |-> T2330s, valid |-> TRUE, clock |-> 1410],
     [s |-> Tbad, valid |-> FALSE, clock |-> 0]}

RawTimes == {r.s : r \in RawTable}

Meaning(s) == CHOOSE r \in RawTable : r.s = s

RawEntries == [start : RawTimes, end : RawTimes]

\* the listings handed to a parser on its own
RawListings == UNION {[1..n -> RawEntries] : n \in 0..MaxEntries}

\* the listings a day request of an aggregation can receive
DayListings ==
    {<<>>,
     <<[start |-> T0800, end |-> T2330]>>,
     <<[start |-> Tbad, end |-> T0800]>>}

\* the first offset of the loop of an aggregator
FirstOffset(v) ==
    CASE v = "index" -> minIndex
      [] v = "sdiptv" -> 0
      [] v = "date" -> -daysBefore

\* the last offset of the loop of an aggregator
LastOffset(v, backDay) ==
    CASE v = "index" -> maxIndex
      [] v = "sdiptv" -> backDay
      [] v = "date" -> daysAfter

\* part_002: epgBackDay := int(channel.TimeShiftLength.Hours()/24) + 1, capped
EpgBackDay(hours) ==
    IF hours \div 24 + 1 > maxBackDay THEN maxBackDay ELSE hours \div 24 + 1

\* getShandongIndexProgram / getSdIptvChannelIndexProgram /
\* getShandongChannelDateProgram: what the day request for offset k returns,
\* the upstream having answered out ("notfound": 404, "error": a transport
\* error, another status or a body that is not JSON, "ok": the listing data)
GetDayProgram(v, out, data, k, tnow, tstart, z) ==
    IF out # "ok" THEN [err |-> out, programs |-> <<>>]
    ELSE CASE v = "index" -> parseShandongPrograms(data, k, tnow, z)
           [] v = "sdiptv" -> parseSdIptvProgramList(data, Itoa(k), tnow, z)
           [] v = "date" -> parseProgramData(data, DateStr(AddDate(tstart, k, z), z), z)

EpgIdle ==
    /\ variant = "none"
    /\ loc = 0
    /\ now = 0
    /\ ticks = 0
    /\ ePc = "idle"
    /\ eIdx = 0
    /\ epgBackDay = 0
    /\ startNow = 0
    /\ targetDate = 0
    /\ requested = <<>>
    /\ okKeys = <<>>
    /\ datePrograms = <<>>
    /\ eRet = "pending"
    /\ rawData = <<>>
    /\ parsed = [err |-> "nil", programs |-> <<>>]

CacheIdle ==
    /\ channelsPtr = NilPtr
    /\ rpc = "off"
    /\ maxRetries = 0
    /\ i = 0
    /\ err = "nil"
    /\ ret = "nil"
    /\ channels = <<>>
    /\ acqErr = "nil"
    /\ lastRet = "nil"
    /\ cancelAt = "none"
    /\ cycles = 0
    /\ callNo = 0
    /\ snapBefore = NilPtr
    /\ outcomes = <<>>
    /\ rd = [seen |-> NilPtr, call |-> 0, status |-> "none"]

\* no caller of a renderer has answered
NoResp == [caller |-> "none", status |-> "none", rendered |-> FALSE, mode |-> <<>>,
           err |-> "nil", body |-> <<>>, file |-> "none"]

\* no renderer is running
RenderIdle ==
    /\ rPc = "off"
    /\ impl = "v1"
    /\ channelURLs = <<>>
    /\ udpxyURL = <<>>
    /\ multicastFirst = FALSE
    /\ selectedURL = [Scheme |-> "", Host |-> "", Path |-> <<>>]
    /\ urlRet = [err |-> "nil", str |-> <<>>]
    /\ catchUpMode = <<>>
    /\ catchupSource = <<>>
    /\ format = ""
    /\ resp = NoResp

\* an aggregator is called for one channel
EpgInit ==
    /\ CacheIdle
    /\ RenderIdle
    /\ variant \in {"index", "sdiptv", "date"}
    /\ \E sc \in Scenarios :
          /\ loc = sc.tz
          /\ now = Date(StartDay, sc.clock \div 60, sc.clock % 60, sc.tz)
    /\ ticks = 0
    /\ ePc = "loop"
    /\ eIdx = FirstOffset(variant)
    /\ \E h \in (IF variant = "sdiptv" THEN TimeShiftHours ELSE {0}) :
          epgBackDay = IF variant = "sdiptv" THEN EpgBackDay(h) ELSE 0
    /\ startNow = now
    /\ targetDate = 0
    /\ requested = <<>>
    /\ okKeys = <<>>
    /\ datePrograms = <<>>
    /\ eRet = "pending"
    /\ rawData = <<>>
    /\ parsed = [err |-> "nil", programs |-> <<>>]

\* the loop test; in the loop the index and date aggregators compute
\* targetDate, and the day request is sent
EpgLoop ==
    /\ ePc = "loop"
    /\ IF eIdx <= LastOffset(variant, epgBackDay)
       THEN /\ ePc' = "wait"
            /\ requested' = Append(requested, eIdx)
            /\ targetDate' = CASE variant = "index" -> AddDate(now, eIdx, loc)
                               [] variant = "date" -> AddDate(startNow, eIdx, loc)
                               [] variant = "sdiptv" -> targetDate
            /\ UNCHANGED eRet
       ELSE /\ ePc' = "done"
            /\ eRet' = "nil"
            /\ UNCHANGED <<targetDate, requested>>
    /\ UNCHANGED <<variant, loc, now, ticks, eIdx, epgBackDay, startNow, okKeys,
                   datePrograms, rawData, parsed>>
    /\ UNCHANGED <<cacheVars, renderVars>>

\* the wall clock advances while a day request is in flight
EpgTick ==
    /\ ePc = "wait"
    /\ ticks < MaxTicks
    /\ now' = now + TickMinutes
    /\ ticks' = ticks + 1
    /\ UNCHANGED <<variant, loc, ePc, eIdx, epgBackDay, startNow, targetDate, requested,
                   okKeys, datePrograms, eRet, rawData, parsed>>
    /\ UNCHANGED <<cacheVars, renderVars>>

\* the day request returns r, and the loop body ends
EpgDayDone(r) ==
    /\ IF r.err # "nil"
       THEN IF variant = "sdiptv" /\ r.err = "notfound"
            THEN /\ ePc' = "done"
                 /\ eRet' = "notfound"
                 /\ datePrograms' = <<>>
                 /\ UNCHANGED <<eIdx, okKeys>>
            ELSE /\ ePc' = "loop"
                 /\ eIdx' = eIdx + 1
                 /\ UNCHANGED <<eRet, datePrograms, okKeys>>
       ELSE /\ Len(datePrograms) < MaxGoodDays
            /\ ePc' = "loop"
            /\ eIdx' = eIdx + 1
            /\ okKeys' = Append(okKeys, eIdx)
            /\ datePrograms' = Append(datePrograms,
                  [Date |-> CASE variant = "index" -> targetDate
                              [] variant = "sdiptv" ->
                                   Date(LocalDay(AddDate(now, eIdx, loc), loc), 0, 0, loc)
                              [] variant = "date" -> Truncate24h(targetDate),
                   ProgramList |-> r.programs])
            /\ UNCHANGED eRet
    /\ UNCHANGED <<variant, loc, now, ticks, epgBackDay, startNow, targetDate, requested,
                   rawData, parsed>>
    /\ UNCHANGED <<cacheVars, renderVars>>

\* the upstream answers the day request: out, and with "ok" the listing data
EpgResponse(out, data) ==
    /\ ePc = "wait"
    /\ out # "ok" => data = <<>>
    /\ EpgDayDone(GetDayProgram(variant, out, data, eIdx, now, startNow, loc))

EpgNext ==
    \/ EpgLoop
    \/ EpgTick
    \/ \E out \in {"notfound", "error", "ok"} : \E data \in DayListings : EpgResponse(out, data)

SpecEPG == EpgInit /\ [][EpgNext]_vars

(***************************************************************************)
(* A parser on its own: a day's listing is handed to the day request of    *)
(* one variant, for the day at offset eIdx.                                *)
(***************************************************************************)
ParseOffsets == {-1, 0, 1}

ParseInit ==
    /\ CacheIdle
    /\ RenderIdle
    /\ variant \in {"index", "sdiptv", "date"}
    /\ \E sc \in Scenarios :
          /\ loc = sc.tz
          /\ now = Date(StartDay, sc.clock \div 60, sc.clock % 60, sc.tz)
    /\ ticks = 0
    /\ ePc = "parse"
    /\ eIdx \in {k \in ParseOffsets : variant = "sdiptv" => k >= 0}
    /\ epgBackDay = 0
    /\ startNow = now
    /\ targetDate = 0
    /\ requested = <<>>
    /\ okKeys = <<>>
    /\ datePrograms = <<>>
    /\ eRet = "pending"
    /\ rawData \in RawListings
    /\ parsed = [err |-> "nil", programs |-> <<>>]

\* the body of the day request is parsed
ParseDay ==
    /\ ePc = "parse"
    /\ ePc' = "parsed"
    /\ parsed' = GetDayProgram(variant, "ok", rawData, eIdx, now, startNow, loc)
    /\ UNCHANGED <<variant, loc, now, ticks, eIdx, epgBackDay, startNow, targetDate,
                   requested, okKeys, datePrograms, eRet, rawData>>
    /\ UNCHANGED <<cacheVars, renderVars>>

ParseNext == ParseDay

SpecParse == ParseInit /\ [][ParseNext]_vars

(***************************************************************************)
(* The directory cache on its own.                                         *)
(***************************************************************************)
Init == CacheInit /\ EpgIdle /\ RenderIdle

Next == CacheNext

Spec == Init /\ [][Next]_vars

(***************************************************************************)
(* URLs.  A string is a sequence of tokens; a url.URL is its Scheme, its   *)
(* Host and its Path, the path being the tokens "/" and the segments.      *)
(***************************************************************************)
SCHEME_IGMP == "igmp"

\* var channelURL url.URL: the zero value
ZeroURL == [Scheme |-> "", Host |-> "", Path |-> <<>>]

\* longest ChannelURLs of a channel handed to getChannelURLStr on its own
MaxURLs == 3

\* the URLs of the channels
Igmp1 == [Scheme |-> "igmp", Host |-> "239.1.1.1:1234", Path |-> <<>>]
Igmp2 == [Scheme |-> "igmp", Host |-> "239.1.1.2:1234", Path |-> <<>>]
Rtsp1 == [Scheme |-> "rtsp", Host |-> "10.0.0.1", Path |-> <<"/", "live", "/", "1">>]
Http2 == [Scheme |-> "http", Host |-> "10.0.0.2", Path |-> <<"/", "live", "/", "2">>]

URLs == {Igmp1, Igmp2, Rtsp1, Http2}

URLLists == UNION {[1..n -> URLs] : n \in 0..MaxURLs}

\* the values of udpxyURL: none, a base URL, one with a trailing slash, one
\* with a path, and an address typed without its scheme
NoProxy == <<>>
ProxyPlain == <<"http", ":", "//", "192.168.1.1:4022">>
ProxySlash == <<"http", ":", "//", "192.168.1.1:4022", "/">>
ProxyPath == <<"http", ":", "//", "192.168.1.1:4022", "/", "udpxy">>
ProxyNoScheme == <<"192.168.1.1", ":", "4022">>

ProxyURLs == {NoProxy, ProxyPlain, ProxySlash, ProxyPath, ProxyNoScheme}

\* the words url.Parse takes for a scheme
SchemeWords == {"http", "igmp", "rtsp"}

\* u.String()
String(u) ==
    (IF u.Scheme # "" THEN <<u.Scheme, ":">> ELSE <<>>)
    \o (IF (u.Scheme # "" \/ u.Host # "") /\ (u.Host # "" \/ Len(u.Path) > 0)
        THEN <<"//">> ELSE <<>>)
    \o (IF u.Host # "" THEN <<u.Host>> ELSE <<>>)
    \o (IF Len(u.Path) > 0 /\ u.Path[1] # "/" /\ u.Host # "" THEN <<"/">> ELSE <<>>)
    \o u.Path

ParseErr == [ok |-> FALSE, url |-> ZeroURL]

\* url.Parse(s): scheme, then "//" and the host, then the path; a first
\* segment with a colon and no scheme before it is an error
Parse(s) ==
    IF Len(s) >= 2 /\ s[2] = ":"
    THEN IF s[1] \notin SchemeWords THEN ParseErr
         ELSE IF Len(s) >= 4 /\ s[3] = "//"
              THEN [ok |-> TRUE,
                    url |-> [Scheme |-> s[1], Host |-> s[4], Path |-> Drop(s, 4)]]
              ELSE [ok |-> TRUE, url |-> [Scheme |-> s[1], Host |-> "", Path |-> Drop(s, 2)]]
    ELSE [ok |-> TRUE, url |-> [Scheme |-> "", Host |-> "", Path |-> s]]

\* the segments of a path: what path.Join keeps of it
Segments(path) == SelectSeq(path, LAMBDA t : t # "/")

RECURSIVE PathOf(_, _)
\* the first n segments, each after a slash
PathOf(segs, n) == IF n = 0 THEN <<>> ELSE PathOf(segs, n - 1) \o <<"/", segs[n]>>

RECURSIVE JoinElems(_, _)
\* the first n elements, a slash between them
JoinElems(elems, n) ==
    IF n = 0 THEN <<>> ELSE JoinElems(elems, n - 1) \o <<"/">> \o elems[n]

\* u.JoinPath(elems...): path.Join of the path of u and the elements, which
\* removes empty segments and doubled slashes, and keeps a trailing slash
\* only when the last element ends with one
URLJoinPath(u, elems) ==
    Bind(Segments(u.Path \o JoinElems(elems, Len(elems))), LAMBDA segs :
      Bind(elems[Len(elems)], LAMBDA last :
        [u EXCEPT !.Path = PathOf(segs, Len(segs))
                             \o (IF Len(last) > 0 /\ last[Len(last)] = "/"
                                 THEN <<"/">> ELSE <<>>)]))

\* url.JoinPath(base, elems...)
JoinPath(base, elems) ==
    Bind(Parse(base), LAMBDA b :
      IF ~b.ok THEN [err |-> "parse", str |-> <<>>]
      ELSE [err |-> "nil", str |-> String(URLJoinPath(b.url, elems))])

\* a host as a string
HostStr(u) == IF u.Host = "" THEN <<>> ELSE <<u.Host>>

\* the elements getChannelURLStr joins to the proxy: one made by
\* fmt.Sprintf("/rtp/%s", host) in the first version, "/rtp/" and the host
\* in the second
RtpElems(v, u) ==
    IF v = "v1" THEN << <<"/", "rtp", "/">> \o HostStr(u) >>
    ELSE << <<"/", "rtp", "/">>, HostStr(u) >>

\* the scheme test of the loop of getChannelURLStr
Preferred(u, mcFirst) ==
    \/ mcFirst /\ u.Scheme = SCHEME_IGMP
    \/ ~mcFirst /\ u.Scheme # SCHEME_IGMP

RECURSIVE ScanV1(_, _, _, _)
\* channel.go:164-169: for _, channelURL = range channelURLs, from place k
\* on; cur is channelURL before the iteration
ScanV1(urls, k, mcFirst, cur) ==
    IF k > Len(urls) THEN cur
    ELSE IF Preferred(urls[k], mcFirst) THEN urls[k]
    ELSE ScanV1(urls, k + 1, mcFirst, urls[k])

RECURSIVE ScanV2(_, _, _, _)
\* channel.go:342-348: for _, u := range channelURLs, from place k on; cur
\* is selectedURL before the iteration
ScanV2(urls, k, mcFirst, cur) ==
    IF k > Len(urls) THEN cur
    ELSE IF Preferred(urls[k], mcFirst) THEN urls[k]
    ELSE ScanV2(urls, k + 1, mcFirst, cur)

\* the URL getChannelURLStr chooses from one or more URLs
SelectURL(v, urls, mcFirst) ==
    IF Len(urls) = 1 THEN urls[1]
    ELSE IF v = "v1" THEN ScanV1(urls, 1, mcFirst, ZeroURL)
    ELSE ScanV2(urls, 1, mcFirst, ZeroURL)

\* a slip: an igmp URL is rewritten whether or not a proxy is configured
RewriteAlways(v, u, udpxy) ==
    IF u.Scheme = SCHEME_IGMP
    THEN JoinPath(udpxy, RtpElems(v, u))
    ELSE [err |-> "nil", str |-> String(u)]

\* channel.go:172-176 and 351-354: the rewrite of a multicast URL
Rewrite(v, u, udpxy) ==
    IF udpxy # <<>> /\ u.Scheme = SCHEME_IGMP
    THEN JoinPath(udpxy, RtpElems(v, u))
    ELSE [err |-> "nil", str |-> String(u)]

\* getChannelURLStr(channelURLs, udpxyURL, multicastFirst)
getChannelURLStr(v, urls, udpxy, mcFirst) ==
    IF Len(urls) = 0 THEN [err |-> "nourl", str |-> <<>>]
    ELSE Rewrite(v, SelectURL(v, urls, mcFirst), udpxy)

\* getChannelURLStr is called on its own
URLInit ==
    /\ CacheIdle
    /\ EpgIdle
    /\ rPc = "url"
    /\ impl \in {"v1", "v2"}
    /\ channelURLs \in URLLists
    /\ udpxyURL \in ProxyURLs
    /\ multicastFirst \in BOOLEAN
    /\ selectedURL = ZeroURL
    /\ urlRet = [err |-> "nil", str |-> <<>>]
    /\ catchUpMode = <<>>
    /\ catchupSource = <<>>
    /\ format = ""
    /\ resp = NoResp

\* getChannelURLStr runs
GetChannelURLStr ==
    /\ rPc = "url"
    /\ rPc' = "urlDone"
    /\ selectedURL' = IF Len(channelURLs) = 0 THEN ZeroURL
                      ELSE SelectURL(impl, channelURLs, multicastFirst)
    /\ urlRet' = getChannelURLStr(impl, channelURLs, udpxyURL, multicastFirst)
    /\ UNCHANGED <<impl, channelURLs, udpxyURL, multicastFirst, catchUpMode, catchupSource,
                   format, resp>>
    /\ UNCHANGED <<cacheVars, epgVars>>

URLNext == GetChannelURLStr

SpecURL == URLInit /\ [][URLNext]_vars

(***************************************************************************)
(* The renderers of package iptv.  A document is the sequence of its       *)
(* lines; a mode is a string of characters.                                *)
(***************************************************************************)
\* most channels of a snapshot handed to a renderer
MaxSnapshot == 3

\* minutes of an hour: time.Duration values are counted in minutes
MinutesPerHour == 60

\* Channel.TimeShiftURL: a *url.URL
NilURL == [nil |-> TRUE, url |-> ZeroURL]
TimeShiftBase == [nil |-> FALSE,
                  url |-> [Scheme |-> "http", Host |-> "h", Path |-> <<"/", "ts">>]]

\* the channels of the snapshots: one with time shift and a window of seven
\* days, 23 hours and 59 minutes, one with a window of zero, one without
\* the time-shift flag, one without a time-shift URL, and one without URLs
Ch1 == [ChannelID |-> "id1", ChannelName |-> "CCTV1", UserChannelID |-> "1",
        ChannelURLs |-> <<Igmp1>>, TimeShift |-> "1", TimeShiftLength |-> 11519,
        TimeShiftURL |-> TimeShiftBase, GroupName |-> "g1", LogoName |-> "CCTV1"]
Ch2 == [ChannelID |-> "id2", ChannelName |-> "CCTV2", UserChannelID |-> "2",
        ChannelURLs |-> <<Http2>>, TimeShift |-> "1", TimeShiftLength |-> 0,
        TimeShiftURL |-> TimeShiftBase, GroupName |-> "g2", LogoName |-> "CCTV2"]
Ch3 == [ChannelID |-> "id3", ChannelName |-> "CCTV3", UserChannelID |-> "3",
        ChannelURLs |-> <<Rtsp1, Igmp2>>, TimeShift |-> "0", TimeShiftLength |-> 10080,
        TimeShiftURL |-> TimeShiftBase, GroupName |-> "g1", LogoName |-> ""]
Ch4 == [ChannelID |-> "id4", ChannelName |-> "CCTV4", UserChannelID |-> "4",
        ChannelURLs |-> <<Igmp2, Igmp1>>, TimeShift |-> "1", TimeShiftLength |-> 2879,
        TimeShiftURL |-> NilURL, GroupName |-> "g2", LogoName |-> ""]
Ch5 == [ChannelID |-> "id5", ChannelName |-> "CCTV5", UserChannelID |-> "5",
        ChannelURLs |-> <<>>, TimeShift |-> "0", TimeShiftLength |-> 0,
        TimeShiftURL |-> NilURL, GroupName |-> "g1", LogoName |-> ""]

Channels == {Ch1, Ch2, Ch3, Ch4, Ch5}

\* the channel lists: no channel twice
Snapshots ==
    UNION {{l \in [1..n -> Channels] : \A j, k \in 1..n : j # k => l[j] # l[k]} :
             n \in 0..MaxSnapshot}

\* the logo directory: the logo names that have a file, and the file name
LogoFiles == {"CCTV1"}
PngOf(name) == CASE name = "CCTV1" -> "CCTV1.png" [] name = "CCTV2" -> "CCTV2.png"

\* part_001:19-22 and the default of --catchup-source
diypCatchupSource == <<"?playseek=${(b)yyyyMMddHHmmss}-${(e)yyyyMMddHHmmss}">>
kodiCatchupSource == <<"?playseek={utc:YmdHMS}-{utcend:YmdHMS}">>
flussonicSourceFmt == <<"?start=${start}&end=${end}&dvr=${duration}">>
xdomoSourceFmt == <<"?timeshift=${start}-${end}">>
CustomSource == <<"vod=${start}">>

\* a slip: the labels of the append and custom modes are exchanged
mapCatchupModeSwapped(param) ==
    CASE param = <<"1">> -> "custom"
      [] param = <<"2">> -> "flussonic"
      [] param = <<"3">> -> "xdomo"
      [] param = <<"4">> -> "append"
      [] OTHER -> "default"

\* mapCatchupMode(param)
mapCatchupMode(param) ==
    CASE param = <<"1">> -> "append"
      [] param = <<"2">> -> "flussonic"
      [] param = <<"3">> -> "xdomo"
      [] param = <<"4">> -> "custom"
      [] OTHER -> "default"

\* channel.go:76-87: the switch on catchUpMode
SourceURL(baseURL, cs, mode) ==
    CASE mode = <<"1">> -> baseURL \o cs
      [] mode = <<"2">> -> baseURL \o <<"?start=${start}&end=${end}&dvr=${duration}">>
      [] mode = <<"3">> -> baseURL \o <<"?timeshift=${start}-${end}">>
      [] mode = <<"4">> -> baseURL \o <<"?">> \o cs
      [] OTHER -> baseURL

\* channel.go:70-95: the catch-up attributes of a channel, none or one set;
\* int64(TimeShiftLength.Hours()/24) rounds toward zero
CatchupAttrs(channel, cs, mode) ==
    IF channel.TimeShift = "1" /\ channel.TimeShiftLength > 0 /\ ~channel.TimeShiftURL.nil
    THEN <<[catchup |-> mapCatchupMode(mode),
            source |-> SourceURL(String(channel.TimeShiftURL.url), cs, mode),
            days |-> (channel.TimeShiftLength \div MinutesPerHour) \div 24]>>
    ELSE <<>>

\* channel.go:60-68: the tvg-logo attribute of a channel, none or one
LogoAttr(channel, logoBaseUrl) ==
    IF logoBaseUrl # <<>> /\ channel.LogoName # "" /\ channel.LogoName \in LogoFiles
    THEN Bind(JoinPath(logoBaseUrl, << <<PngOf(channel.LogoName)>> >>), LAMBDA r :
           IF r.err = "nil" THEN <<r.str>> ELSE <<>>)
    ELSE <<>>

\* channel.go:56-100: the line of a channel whose URL is urlStr
M3ULine(channel, urlStr, cs, mode, logoBaseUrl) ==
    [kind |-> "EXTINF",
     tvgId |-> channel.ChannelID,
     tvgChno |-> channel.UserChannelID,
     logo |-> LogoAttr(channel, logoBaseUrl),
     catchup |-> CatchupAttrs(channel, cs, mode),
     groupTitle |-> channel.GroupName,
     name |-> channel.ChannelName,
     url |-> urlStr]

\* what ToM3UFormat and ToTxtFormat return on an error
RenderErr(e) == [err |-> e, doc |-> <<>>]

RECURSIVE M3ULoop(_, _, _, _, _, _, _, _)
\* channel.go:50-101: the loop of ToM3UFormat over the first n channels:
\* the first channel without a URL ends the function with the error
M3ULoop(v, chans, n, udpxy, cs, mode, mcFirst, logoBaseUrl) ==
    IF n = 0 THEN [err |-> "nil", doc |-> <<[kind |-> "EXTM3U"]>>]
    ELSE Bind(M3ULoop(v, chans, n - 1, udpxy, cs, mode, mcFirst, logoBaseUrl), LAMBDA sb :
      IF sb.err # "nil" THEN sb
      ELSE Bind(getChannelURLStr(v, chans[n].ChannelURLs, udpxy, mcFirst), LAMBDA u :
        IF u.err # "nil" THEN RenderErr(u.err)
        ELSE [err |-> "nil",
              doc |-> Append(sb.doc, M3ULine(chans[n], u.str, cs, mode, logoBaseUrl))]))

\* ToM3UFormat(channels, udpxyURL, catchupSource, catchUpMode,
\* multicastFirst, logoBaseUrl); pathErr: GetCurrentAbPathByExecutable fails
ToM3UFormat(v, chans, udpxy, cs, mode, mcFirst, logoBaseUrl, pathErr) ==
    IF Len(chans) = 0 THEN RenderErr("nochannels")
    ELSE IF pathErr THEN RenderErr("path")
    ELSE M3ULoop(v, chans, Len(chans), udpxy, cs, mode, mcFirst, logoBaseUrl)

RECURSIVE TxtGroupsAppendAlways(_, _)
\* a slip: the name of the group is appended for every channel
TxtGroupsAppendAlways(chans, n) ==
    IF n = 0 THEN [groupNames |-> <<>>, groupChannelMap |-> [g \in {} |-> <<>>]]
    ELSE Bind(TxtGroupsAppendAlways(chans, n - 1), LAMBDA p :
      IF chans[n].GroupName \notin DOMAIN p.groupChannelMap
      THEN [groupNames |-> Append(p.groupNames, chans[n].GroupName),
            groupChannelMap |->
                [g \in DOMAIN p.groupChannelMap \cup {chans[n].GroupName} |->
                    IF g = chans[n].GroupName THEN <<chans[n]>>
                    ELSE p.groupChannelMap[g]]]
      ELSE [groupNames |-> Append(p.groupNames, chans[n].GroupName),
            groupChannelMap |->
                [p.groupChannelMap EXCEPT ![chans[n].GroupName] = Append(@, chans[n])]])

RECURSIVE TxtGroups(_, _)
\* channel.go:122-134: groupNames and groupChannelMap after the first n
\* channels
TxtGroups(chans, n) ==
    IF n = 0 THEN [groupNames |-> <<>>, groupChannelMap |-> [g \in {} |-> <<>>]]
    ELSE Bind(TxtGroups(chans, n - 1), LAMBDA p :
      IF chans[n].GroupName \notin DOMAIN p.groupChannelMap
      THEN [groupNames |-> Append(p.groupNames, chans[n].GroupName),
            groupChannelMap |->
                [g \in DOMAIN p.groupChannelMap \cup {chans[n].GroupName} |->
                    IF g = chans[n].GroupName THEN <<chans[n]>>
                    ELSE p.groupChannelMap[g]]]
      ELSE [groupNames |-> p.groupNames,
            groupChannelMap |->
                [p.groupChannelMap EXCEPT ![chans[n].GroupName] = Append(@, chans[n])]])

RECURSIVE TxtChannelLoop(_, _, _, _, _)
\* channel.go:142-149: the lines of the first n channels of a group
TxtChannelLoop(v, groupChannels, n, udpxy, mcFirst) ==
    IF n = 0 THEN [err |-> "nil", doc |-> <<>>]
    ELSE Bind(TxtChannelLoop(v, groupChannels, n - 1, udpxy, mcFirst), LAMBDA sb :
      IF sb.err # "nil" THEN sb
      ELSE Bind(getChannelURLStr(v, groupChannels[n].ChannelURLs, udpxy, mcFirst), LAMBDA u :
        IF u.err # "nil" THEN RenderErr(u.err)
        ELSE [err |-> "nil",
              doc |-> Append(sb.doc, <<groupChannels[n].ChannelName, ",">> \o u.str)]))

RECURSIVE TxtGroupLoop(_, _, _, _, _)
\* channel.go:137-150: the lines of the first n groups, each a header line
\* and the lines of its channels
TxtGroupLoop(v, groups, n, udpxy, mcFirst) ==
    IF n = 0 THEN [err |-> "nil", doc |-> <<>>]
    ELSE Bind(TxtGroupLoop(v, groups, n - 1, udpxy, mcFirst), LAMBDA sb :
      IF sb.err # "nil" THEN sb
      ELSE Bind(groups.groupChannelMap[groups.groupNames[n]], LAMBDA groupChannels :
        Bind(TxtChannelLoop(v, groupChannels, Len(groupChannels), udpxy, mcFirst), LAMBDA ls :
          IF ls.err # "nil" THEN ls
          ELSE [err |-> "nil",
                doc |-> sb.doc \o << <<groups.groupNames[n], ",", "#genre#">> >> \o ls.doc])))

\* ToTxtFormat(channels, udpxyURL, multicastFirst)
ToTxtFormat(v, chans, udpxy, mcFirst) ==
    IF Len(chans) = 0 THEN RenderErr("nochannels")
    ELSE Bind(TxtGroups(chans, Len(chans)), LAMBDA groups :
           TxtGroupLoop(v, groups, Len(groups.groupNames), udpxy, mcFirst))

(***************************************************************************)
(* The callers of the renderers: the handlers GetM3UData and GetTXTData of *)
(* package router and the channel command.                                 *)
(***************************************************************************)
\* the byte of a character
Ord(c) ==
    CASE c = "0" -> 48 [] c = "1" -> 49 [] c = "2" -> 50 [] c = "3" -> 51
      [] c = "4" -> 52 [] c = "5" -> 53 [] c = "x" -> 120

RECURSIVE StrLess(_, _)
\* a < b on Go strings: byte by byte, a proper prefix being less
StrLess(a, b) ==
    IF Len(b) = 0 THEN FALSE
    ELSE IF Len(a) = 0 THEN TRUE
    ELSE IF a[1] # b[1] THEN Ord(a[1]) < Ord(b[1])
    ELSE StrLess(Tail(a), Tail(b))

\* a query parameter or a flag that was not given
Absent == [present |-> FALSE, val |-> <<>>]
Given(s) == [present |-> TRUE, val |-> s]

\* c.DefaultQuery(key, def), and the value of a flag with default def
DefaultQuery(q, def) == IF q.present THEN q.val ELSE def

\* the values of the CatchUp query parameter
CatchUpQueries ==
    {Absent, Given(<<>>), Given(<<"0">>), Given(<<"1">>), Given(<<"2">>), Given(<<"3">>),
     Given(<<"4">>), Given(<<"5">>), Given(<<"1", "0">>), Given(<<"2", "x">>)}

\* the values of the --catch-up-mode flag
CatchUpFlags == {Absent, Given(<<>>), Given(<<"2">>), Given(<<"1", "0">>)}

\* part_001:33-39: the mode GetM3UData keeps of the CatchUp parameter
CheckedMode(q) ==
    Bind(DefaultQuery(q, <<"0">>), LAMBDA m :
      IF StrLess(m, <<"0">>) \/ StrLess(<<"4">>, m) THEN <<"0">> ELSE m)

\* part_001:68-74: the time format csFormat selects
TimeFormat(csFormat) == IF csFormat = "1" THEN kodiCatchupSource ELSE diypCatchupSource

\* part_001:42-78: catchupSource for the mode, csFormat and the
\* catchupSource parameter
HandlerCatchupSource(mode, csFormat, custom) ==
    CASE mode = <<"1">> -> TimeFormat(csFormat)
      [] mode = <<"2">> -> flussonicSourceFmt
      [] mode = <<"3">> -> xdomoSourceFmt
      [] mode = <<"4">> -> (IF custom # <<>> THEN custom ELSE diypCatchupSource)
      [] OTHER -> TimeFormat(csFormat)

\* multicastFirst, err := strconv.ParseBool(s); if err != nil: true
MultiFirst(s) ==
    IF s \in {"1", "t", "T", "TRUE", "true", "True"} THEN TRUE
    ELSE IF s \in {"0", "f", "F", "FALSE", "false", "False"} THEN FALSE
    ELSE TRUE

\* the configuration udpxyURLs, as the list of its entries sorted by key
udpxyURLs == <<[k |-> "home", v |-> ProxyPlain], [k |-> "wan", v |-> ProxySlash]>>

\* getUdpxyURL(udpxyName)
getUdpxyURL(udpxyName) ==
    IF udpxyName # ""
    THEN Bind(SelectSeq(udpxyURLs, LAMBDA e : e.k = udpxyName), LAMBDA m :
           IF Len(m) > 0 THEN m[1].v ELSE <<>>)
    ELSE IF Len(udpxyURLs) > 0 THEN udpxyURLs[1].v ELSE <<>>

\* fmt.Sprintf("http://%s/logo", c.Request.Host)
HandlerLogoBase == <<"http", ":", "//", "tv.local:8088", "/", "logo">>

\* a caller is about to run with a list of channels acquired, which is the
\* cached snapshot of the handlers when it is not empty
RenderInit ==
    /\ EpgIdle
    /\ channels \in Snapshots
    /\ channelsPtr = IF Len(channels) = 0 THEN NilPtr ELSE PtrTo(channels)
    /\ rpc = "off"
    /\ maxRetries = 0
    /\ i = 0
    /\ err = "nil"
    /\ ret = "nil"
    /\ acqErr = "nil"
    /\ lastRet = "nil"
    /\ cancelAt = "none"
    /\ cycles = 0
    /\ callNo = 0
    /\ snapBefore = NilPtr
    /\ outcomes = <<>>
    /\ rd = [seen |-> NilPtr, call |-> 0, status |-> "none"]
    /\ rPc = "idle"
    /\ impl \in {"v1", "v2"}
    /\ channelURLs = <<>>
    /\ udpxyURL = <<>>
    /\ multicastFirst = FALSE
    /\ selectedURL = ZeroURL
    /\ urlRet = [err |-> "nil", str |-> <<>>]
    /\ catchUpMode = <<>>
    /\ catchupSource = <<>>
    /\ format = ""
    /\ resp = NoResp

\* part_001:32-87: GetM3UData reads the parameters of the request
M3UParams(q, csFormat, custom, multiFirstStr, udpxyName) ==
    /\ rPc = "idle"
    /\ rPc' = "m3u"
    /\ catchUpMode' = CheckedMode(q)
    /\ catchupSource' = HandlerCatchupSource(CheckedMode(q), csFormat, custom)
    /\ multicastFirst' = MultiFirst(multiFirstStr)
    /\ udpxyURL' = getUdpxyURL(udpxyName)
    /\ UNCHANGED <<impl, channelURLs, selectedURL, urlRet, format, resp>>
    /\ UNCHANGED <<cacheVars, epgVars>>

\* what a handler answers: a status and a body
Answer(caller, status, rendered, mode, e, body) ==
    [caller |-> caller, status |-> status, rendered |-> rendered, mode |-> mode,
     err |-> e, body |-> body, file |-> "none"]

\* part_001:89-113: GetM3UData loads the snapshot, renders it and answers
M3URespond(pathErr) ==
    /\ rPc = "m3u"
    /\ rPc' = "served"
    /\ resp' =
         IF channelsPtr.nil THEN Answer("GetM3UData", "panic", FALSE, <<>>, "nil", <<>>)
         ELSE IF Len(channelsPtr.chans) = 0
              THEN Answer("GetM3UData", "404", FALSE, <<>>, "nil", <<>>)
         ELSE Bind(ToM3UFormat(impl, channelsPtr.chans, udpxyURL, catchupSource,
                               catchUpMode, multicastFirst, HandlerLogoBase, pathErr),
                   LAMBDA r :
                     IF r.err # "nil"
                     THEN Answer("GetM3UData", "500", TRUE, catchUpMode, r.err, <<>>)
                     ELSE Answer("GetM3UData", "200", TRUE, catchUpMode, "nil", r.doc))
    /\ UNCHANGED <<impl, channelURLs, udpxyURL, multicastFirst, selectedURL, urlRet,
                   catchUpMode, catchupSource, format>>
    /\ UNCHANGED <<cacheVars, epgVars>>

\* part_001:118-125: GetTXTData reads the parameters of the request
TXTParams(multiFirstStr, udpxyName) ==
    /\ rPc = "idle"
    /\ rPc' = "txt"
    /\ multicastFirst' = MultiFirst(multiFirstStr)
    /\ udpxyURL' = getUdpxyURL(udpxyName)
    /\ UNCHANGED <<impl, channelURLs, selectedURL, urlRet, catchUpMode, catchupSource,
                   format, resp>>
    /\ UNCHANGED <<cacheVars, epgVars>>

\* part_001:127-140: GetTXTData loads the snapshot, renders it and answers;
\* on an error of ToTxtFormat the status is http.StatusOK
TXTRespond ==
    /\ rPc = "txt"
    /\ rPc' = "served"
    /\ resp' =
         IF channelsPtr.nil THEN Answer("GetTXTData", "panic", FALSE, <<>>, "nil", <<>>)
         ELSE IF Len(channelsPtr.chans) = 0
              THEN Answer("GetTXTData", "404", FALSE, <<>>, "nil", <<>>)
         ELSE Bind(ToTxtFormat(impl, channelsPtr.chans, udpxyURL, multicastFirst),
                   LAMBDA r :
                     IF r.err # "nil"
                     THEN Answer("GetTXTData", "200", TRUE, <<>>, r.err, <<>>)
                     ELSE Answer("GetTXTData", "200", TRUE, <<>>, "nil", r.doc))
    /\ UNCHANGED <<impl, channelURLs, udpxyURL, multicastFirst, selectedURL, urlRet,
                   catchUpMode, catchupSource, format>>
    /\ UNCHANGED <<cacheVars, epgVars>>

\* cmds/channel.go:117-127: the flags of the channel command
ChannelFlags(u, f, s, c, m) ==
    /\ rPc = "idle"
    /\ rPc' = "cli"
    /\ udpxyURL' = u
    /\ format' = f
    /\ catchupSource' = DefaultQuery(s, diypCatchupSource)
    /\ catchUpMode' = DefaultQuery(c, <<"0">>)
    /\ multicastFirst' = m
    /\ UNCHANGED <<impl, channelURLs, selectedURL, urlRet, resp>>
    /\ UNCHANGED <<cacheVars, epgVars>>

\* what the channel command returns, and the file it leaves
Outcome(e, rendered, mode, body, file) ==
    [caller |-> "channel", status |-> IF e = "nil" THEN "ok" ELSE "error",
     rendered |-> rendered, mode |-> mode, err |-> e, body |-> body, file |-> file]

\* cmds/channel.go:81-102: the switch on format
ChannelRender ==
    CASE format = "txt" -> ToTxtFormat(impl, channels, udpxyURL, multicastFirst)
      [] format = "m3u" -> ToM3UFormat(impl, channels, udpxyURL, catchupSource,
                                       catchUpMode, multicastFirst, <<>>, FALSE)

\* cmds/channel.go:35-113: RunE of the channel command; e is the error of
\* the client or of GetAllChannelList, io the step of the file system that
\* fails
ChannelRunE(e, io) ==
    /\ rPc = "cli"
    /\ rPc' = "served"
    /\ resp' =
         IF e # "nil" THEN Outcome(e, FALSE, <<>>, <<>>, "none")
         ELSE IF Len(channels) = 0 THEN Outcome("nochannels", FALSE, <<>>, <<>>, "none")
         ELSE IF format \notin {"txt", "m3u"} THEN Outcome("format", FALSE, <<>>, <<>>, "none")
         ELSE IF io \in {"path", "create"} THEN Outcome(io, FALSE, <<>>, <<>>, "none")
         ELSE Bind(ChannelRender, LAMBDA r :
                IF r.err # "nil"
                THEN Outcome(r.err, TRUE, IF format = "m3u" THEN catchUpMode ELSE <<>>,
                             <<>>, "empty")
                ELSE IF io = "write"
                THEN Outcome("write", TRUE, IF format = "m3u" THEN catchUpMode ELSE <<>>,
                             r.doc, "empty")
                ELSE Outcome("nil", TRUE, IF format = "m3u" THEN catchUpMode ELSE <<>>,
                             r.doc, "written"))
    /\ UNCHANGED <<impl, channelURLs, udpxyURL, multicastFirst, selectedURL, urlRet,
                   catchUpMode, catchupSource, format>>
    /\ UNCHANGED <<cacheVars, epgVars>>

RenderNext ==
    \/ \E q \in CatchUpQueries : \E csFormat \in {"0", "1"} :
         \E custom \in {<<>>, CustomSource} : \E multiFirstStr \in {"true", "false", "yes"} :
           \E udpxyName \in {"", "wan", "lan"} :
             M3UParams(q, csFormat, custom, multiFirstStr, udpxyName)
    \/ \E pathErr \in BOOLEAN : M3URespond(pathErr)
    \/ \E multiFirstStr \in {"true", "false", "yes"} : \E udpxyName \in {"", "wan", "lan"} :
         TXTParams(multiFirstStr, udpxyName)
    \/ TXTRespond
    \/ \E u \in {NoProxy, ProxyPlain} : \E f \in {"m3u", "txt", "xml"} :
         \E s \in {Absent, Given(CustomSource)} : \E c \in CatchUpFlags : \E m \in BOOLEAN :
           ChannelFlags(u, f, s, c, m)
    \/ \E e \in {"nil", "acq"} : \E io \in {"none", "path", "create", "write"} :
         ChannelRunE(e, io)

SpecRender == RenderInit /\ [][RenderNext]_vars

(***************************************************************************)
(* The channel directory cache.                                            *)
(***************************************************************************)

\* C1: replacement by updateChannels is all-or-nothing. While the acquisition
\* is in flight the cached snapshot is the one the call found; a call whose
\* acquisition returned an error or zero channels returns a non-nil error and
\* leaves the snapshot as the call found it; a call that obtained at least
\* one channel returns nil and the snapshot is exactly the obtained list.
C1_AllOrNothing ==
    /\ rpc = "acquire" => channelsPtr = snapBefore
    /\ rpc \in {"stored", "failed"} =>
          IF acqErr # "nil" \/ Len(channels) = 0
          THEN rpc = "failed" /\ lastRet # "nil" /\ channelsPtr = snapBefore
          ELSE rpc = "stored" /\ lastRet = "nil" /\ channelsPtr = PtrTo(channels)

\* a zero-channel result arrived while an earlier snapshot was cached
C1_Witness ==
    /\ rpc = "failed"
    /\ acqErr = "nil"
    /\ Len(channels) = 0
    /\ ~snapBefore.nil
    /\ channelsPtr = snapBefore

\* C2: updateChannelsWithRetry makes at most maxRetries attempts, none after
\* a successful one, returns nil if and only if one attempt succeeded, and
\* returns the last attempt's error when all attempts failed.
C2_RetryContract ==
    rpc = "done" =>
        /\ Len(outcomes) <= maxRetries
        /\ \A k \in 1..(Len(outcomes) - 1) : outcomes[k] # "nil"
        /\ (ret = "nil") <=> (\E k \in 1..Len(outcomes) : outcomes[k] = "nil")
        /\ (Len(outcomes) > 0 /\ \A k \in 1..Len(outcomes) : outcomes[k] # "nil")
              => ret = outcomes[Len(outcomes)]

\* C3: once the context is cancelled while updateChannelsWithRetry runs, no
\* backoff wait and no refresh attempt starts, the function returns the
\* cancellation error, and the cached snapshot stays as it was.
C3_CancelStopsRetry ==
    [][(cancelAt \in {"acquire", "stored", "failed", "sleep"} /\ rpc # "done") =>
          /\ (rpc' = "sleep" => rpc = "sleep")
          /\ (rpc' = "acquire" => rpc = "acquire")
          /\ (rpc' = "done" => ret' = "ctx")
          /\ channelsPtr' = channelsPtr]_vars

\* C4: a reader is never blocked, and what it loaded while a refresh was in
\* flight is the snapshot that refresh found or the complete list that
\* refresh stored, never a list under construction.
C4_ReaderSeesWholeSnapshot ==
    /\ ENABLED GetData
    /\ (rd.call > 0 /\ rd.call = callNo) =>
          \/ rd.seen = snapBefore
          \/ /\ rpc # "acquire"
             /\ lastRet = "nil"
             /\ rd.seen = PtrTo(channels)

\* a reader loaded the new snapshot of an in-flight refresh that replaced an
\* older, different one
C4_Witness ==
    /\ rpc = "stored"
    /\ rd.call = callNo
    /\ ~snapBefore.nil
    /\ snapBefore # channelsPtr
    /\ rd.seen = channelsPtr

(***************************************************************************)
(* The aggregators and the parsers.                                        *)
(***************************************************************************)
\* the offsets lo..hi in ascending order
Window(lo, hi) == [j \in 1..(hi - lo + 1) |-> lo + j - 1]

\* stamp a is chronologically before stamp b
StampBefore(a, b) ==
    \/ a[1] < b[1]
    \/ a[1] = b[1] /\ a[2] < b[2]
    \/ a[1] = b[1] /\ a[2] = b[2] /\ a[3] < b[3]
    \/ a[1] = b[1] /\ a[2] = b[2] /\ a[3] = b[3] /\ a[4] < b[4]

\* C5: in every aggregator a day that is not found is skipped without
\* aborting: the aggregation returns no error and one DateProgram for each
\* day whose request succeeded, in ascending date order.
C5_NotFoundSkipped ==
    ePc = "done" =>
        /\ eRet = "nil"
        /\ Len(datePrograms) = Len(okKeys)
        /\ \A j, k \in 1..Len(datePrograms) :
              j < k => Before(datePrograms[j].Date, datePrograms[k].Date)

\* C6: an aggregation that returns a list has requested every offset of its
\* window once, in ascending order and no other, and the DateProgram built
\* from the answer to offset k is dated today + k.
C6_WindowRequested ==
    (ePc = "done" /\ eRet = "nil") =>
        /\ requested = Window(FirstOffset(variant), LastOffset(variant, epgBackDay))
        /\ ticks = 0 =>
              \A j \in 1..Len(datePrograms) :
                  LocalDay(datePrograms[j].Date, loc) = LocalDay(startNow, loc) + okKeys[j]

\* C7: every program of a parsed listing starts on the base date D at the
\* clock time its start denotes, and ends at the clock time its end
\* denotes, on D when that is not before the start and on D + 1 otherwise.
C7_MidnightCrossing ==
    ePc = "parsed" =>
        \A j \in 1..Len(parsed.programs) :
            LET p == parsed.programs[j]
                sc == Meaning(rawData[p.ProgramName].start).clock
                ec == Meaning(rawData[p.ProgramName].end).clock
                D == LocalDay(now, loc) + eIdx
            IN /\ p.BeginTimeFormat = <<D, sc \div 60, sc % 60, 0>>
               /\ p.EndTimeFormat = <<IF ec >= sc THEN D ELSE D + 1, ec \div 60, ec % 60, 0>>

\* a program from 23:30 to 00:15 was parsed and ends on the day after D
C7_Witness ==
    /\ ePc = "parsed"
    /\ \E j \in 1..Len(parsed.programs) :
          LET p == parsed.programs[j] IN
          /\ rawData[p.ProgramName] = [start |-> T2330, end |-> T0015]
          /\ p.BeginTimeFormat = <<LocalDay(now, loc) + eIdx, 23, 30, 0>>
          /\ p.EndTimeFormat = <<LocalDay(now, loc) + eIdx + 1, 0, 15, 0>>

\* C8: every program of a parsed listing ends chronologically after it
\* starts.
C8_EndAfterStart ==
    ePc = "parsed" =>
        \A j \in 1..Len(parsed.programs) :
            StampBefore(parsed.programs[j].BeginTimeFormat, parsed.programs[j].EndTimeFormat)

\* the entries of a listing whose start and end are both valid clock times,
\* with or without seconds, in the order of the listing
ValidEntries(data) ==
    SelectSeq([k \in 1..Len(data) |-> k],
              LAMBDA k : Meaning(data[k].start).valid /\ Meaning(data[k].end).valid)

\* C9: the index and sdiptv parsers emit, for a listing with entries,
\* exactly the entries whose start and end are valid clock times with or
\* without seconds, in upstream order, and do not drop the day.
C9_ParseTolerance ==
    (ePc = "parsed" /\ variant \in {"index", "sdiptv"} /\ Len(rawData) > 0) =>
        /\ parsed.err = "nil"
        /\ [j \in 1..Len(parsed.programs) |-> parsed.programs[j].ProgramName]
             = ValidEntries(rawData)

\* C10: the programs of a parsed listing are in ascending order of start
\* time, whatever the order of the upstream listing.
C10_SortedByStart ==
    ePc = "parsed" =>
        \A j, k \in 1..Len(parsed.programs) :
            j < k => ~StampBefore(parsed.programs[k].BeginTimeFormat,
                                  parsed.programs[j].BeginTimeFormat)

(***************************************************************************)
(* The aggregators: placeholders and the two readings of the clock.        *)
(***************************************************************************)

\* C17: no DateProgram of a returned list has an empty ProgramList: a day
\* of which no program is left is absent from the list.
C17_NoEmptyDay ==
    ePc = "done" =>
        \A j \in 1..Len(datePrograms) : Len(datePrograms[j].ProgramList) > 0

\* C20: in the list the index aggregator returns, every program starts on
\* the calendar day of the Date of its DateProgram, however the wall clock
\* advanced during the aggregation.
C20_StartOnListDate ==
    (ePc = "done" /\ variant = "index") =>
        \A j \in 1..Len(datePrograms) :
            \A k \in 1..Len(datePrograms[j].ProgramList) :
                datePrograms[j].ProgramList[k].BeginTimeFormat[1]
                    = LocalDay(datePrograms[j].Date, loc)

(***************************************************************************)
(* The handlers and the cached snapshot.                                   *)
(***************************************************************************)

\* C19: a playlist request never reads through a nil snapshot reference,
\* and is answered with the not-found status when no channels are cached.
C19_NotFoundWhenEmpty ==
    rd.status # "none" =>
        /\ rd.status # "panic"
        /\ (rd.seen.nil \/ Len(rd.seen.chans) = 0) => rd.status = "404"

(***************************************************************************)
(* The URL of a channel.                                                   *)
(***************************************************************************)

\* the places of the URLs whose scheme is the preferred one
PreferredPlaces ==
    {k \in 1..Len(channelURLs) : (channelURLs[k].Scheme = "igmp") = multicastFirst}

\* C11: of several URLs getChannelURLStr chooses the first, in the declared
\* order, whose scheme is the preferred one (igmp when multicastFirst, any
\* other scheme otherwise), and the last URL when none is; a single URL is
\* chosen whatever the preference.
C11_FirstPreferredURL ==
    (rPc = "urlDone" /\ Len(channelURLs) >= 1) =>
        selectedURL =
            IF Len(channelURLs) = 1 THEN channelURLs[1]
            ELSE IF PreferredPlaces # {}
                 THEN channelURLs[CHOOSE k \in PreferredPlaces :
                                     \A m \in PreferredPlaces : k <= m]
                 ELSE channelURLs[Len(channelURLs)]

\* the proxy base URL followed by /rtp/ and the host of the chosen URL
ProxiedURL(base) == base \o <<"/", "rtp", "/", selectedURL.Host>>

TrimSlash(base) ==
    IF Len(base) > 0 /\ base[Len(base)] = "/" THEN SubSeq(base, 1, Len(base) - 1)
    ELSE base

RenderedM3U ==
    /\ rPc = "served"
    /\ resp.rendered
    /\ (resp.caller = "GetM3UData" \/ (resp.caller = "channel" /\ format = "m3u"))

\* a renderer was called and ToTxtFormat was the one
RenderedTxt ==
    /\ rPc = "served"
    /\ resp.rendered
    /\ (resp.caller = "GetTXTData" \/ (resp.caller = "channel" /\ format = "txt"))

\* C13: when a rendered snapshot holds a channel without URLs, the error is
\* reported and the document returned still has the line of every channel
\* that has a URL.
C13_ZeroURLChannelOmitted ==
    (rPc = "served" /\ resp.rendered
       /\ \E j \in 1..Len(channels) : Len(channels[j].ChannelURLs) = 0) =>
        /\ resp.err # "nil"
        /\ \A j \in 1..Len(channels) :
              Len(channels[j].ChannelURLs) > 0 =>
                  \E k \in 1..Len(resp.body) :
                      \/ /\ RenderedM3U
                         /\ resp.body[k].kind = "EXTINF"
                         /\ resp.body[k].name = channels[j].ChannelName
                      \/ /\ RenderedTxt
                         /\ resp.body[k][1] = channels[j].ChannelName

\* the five modes of the catch-up table
FiveModes == {<<"0">>, <<"1">>, <<"2">>, <<"3">>, <<"4">>}

\* the catch-up table: the label and the source of a mode for a base URL
CatchupTable(mode, base) ==
    CASE mode = <<"0">> -> [catchup |-> "default", source |-> base]
      [] mode = <<"1">> -> [catchup |-> "append", source |-> base \o catchupSource]
      [] mode = <<"2">> ->
           [catchup |-> "flussonic",
            source |-> base \o <<"?start=${start}&end=${end}&dvr=${duration}">>]
      [] mode = <<"3">> ->
           [catchup |-> "xdomo", source |-> base \o <<"?timeshift=${start}-${end}">>]
      [] mode = <<"4">> -> [catchup |-> "custom", source |-> base \o <<"?">> \o catchupSource]

C15_ModeValidated ==
    RenderedM3U => resp.mode \in FiveModes

\* C18: a handler whose renderer returned an error answers with an error
\* status.
C18_RenderErrorStatus ==
    (rPc = "served" /\ resp.caller \in {"GetM3UData", "GetTXTData"}
       /\ resp.rendered /\ resp.err # "nil") =>
        resp.status \in {"404", "500"}

\* a line of a TXT document is a group header
IsHeader(line) == Len(line) = 3 /\ line[2] = "," /\ line[3] = "#genre#"

\* the places of the channels that are the first of their group
FirstOfGroup(chans) ==
    {j \in 1..Len(chans) :
        \A h \in 1..(j - 1) : chans[h].GroupName # chans[j].GroupName}

\* the place of the nearest header at or before line k, 0 without one
HeaderBefore(doc, k) ==
    IF \E h \in 1..k : IsHeader(doc[h])
    THEN CHOOSE h \in 1..k :
             /\ IsHeader(doc[h])
             /\ \A g \in (h + 1)..k : ~IsHeader(doc[g])
    ELSE 0

\* the line of the document that lists channel j
LineOf(doc, chans, j) ==
    CHOOSE k \in 1..Len(doc) : ~IsHeader(doc[k]) /\ doc[k][1] = chans[j].ChannelName

\* C16: the document of ToTxtFormat for a non-empty list of channels that
\* all have a URL has one header "<group>,#genre#" per distinct group, the
\* headers in the order in which the groups first appear in the input;
\* every channel is listed once as "<name>,<resolved URL>" under the header
\* of its group, and the channels of a group keep the order of the input.
C16_TxtGrouping ==
    (RenderedTxt /\ Len(channels) > 0
       /\ \A j \in 1..Len(channels) : Len(channels[j].ChannelURLs) > 0) =>
        \* no error of the renderer ("write" is the caller's, after rendering)
        /\ resp.err \in {"nil", "write"}
        /\ Len(resp.body) = Len(channels) + Cardinality(FirstOfGroup(channels))
        /\ \A j \in FirstOfGroup(channels) :
              \* the header of the group, and only one
              /\ Cardinality({k \in 1..Len(resp.body) :
                     resp.body[k] = <<channels[j].GroupName, ",", "#genre#">>}) = 1
        /\ \A j, h \in FirstOfGroup(channels) :
              \* headers in the order of first appearance
              j < h =>
                  \E k, l \in 1..Len(resp.body) :
                      /\ k < l
                      /\ resp.body[k] = <<channels[j].GroupName, ",", "#genre#">>
                      /\ resp.body[l] = <<channels[h].GroupName, ",", "#genre#">>
        /\ \A j \in 1..Len(channels) :
              /\ Cardinality({k \in 1..Len(resp.body) :
                     ~IsHeader(resp.body[k])
                       /\ resp.body[k][1] = channels[j].ChannelName}) = 1
              /\ resp.body[LineOf(resp.body, channels, j)] =
                     <<channels[j].ChannelName, ",">> \o
                       getChannelURLStr(impl, channels[j].ChannelURLs,
                                        udpxyURL, multicastFirst).str
              /\ HeaderBefore(resp.body, LineOf(resp.body, channels, j)) > 0
              /\ resp.body[HeaderBefore(resp.body, LineOf(resp.body, channels, j))][1] =
                     channels[j].GroupName
        /\ \A j, h \in 1..Len(channels) :
              (j < h /\ channels[j].GroupName = channels[h].GroupName) =>
                  LineOf(resp.body, channels, j) < LineOf(resp.body, channels, h)

\* three channels of two groups, the groups interleaved in the input
C16_Witness ==
    /\ RenderedTxt
    /\ resp.err = "nil"
    /\ channels = <<Ch1, Ch2, Ch3>>
    /\ Len(resp.body) = 5
    /\ resp.body[1] = <<"g1", ",", "#genre#">>
    /\ resp.body[2][1] = "CCTV1"
    /\ resp.body[3][1] = "CCTV3"
    /\ resp.body[4] = <<"g2", ",", "#genre#">>
    /\ resp.body[5][1] = "CCTV2"

====
